---- MODULE Spec2Model ----
(***************************************************************************)
(* Package inventory and redemption core of the rental tracking            *)
(* application: the users, user_packages and qr_codes tables, the          *)
(* DatabaseHandler operations on them, the routes of app.py that mutate    *)
(* them and QREmailSender's code issuing.                                  *)
(*                                                                         *)
(* Tables are sequences of rows; a row's id is its index (AUTO_INCREMENT). *)
(* The audit tables rentals and email_logs are written but never read for  *)
(* control flow by the operations below and are not part of the state.     *)
(***************************************************************************)
EXTENDS Integers, Sequences, FiniteSets, TLC

\* ------------------------------------------------------------------ bounds

\* Customer emails in play, and the one used by the single-customer runs.
Emails == {"a@x", "b@x"}
OneEmail == {"a@x"}

\* Package type labels in collation order (ORDER BY package_type).
PackageTypes == <<"A", "B">>

\* Rows of user_packages in the single-customer specification.
MaxPackages == 5
\* Rows of user_packages in the two-customer specification.
MaxPackagesMulti == 2
\* Largest explicit package_count tried.
MaxCount == 2
\* Code numbers are drawn from 1..CodeMax (the program draws from 1..9999).
CodeMax == 3
\* Candidate draws per generate_qr_code call (the program tries 100).
MaxAttempts == 2

MaxUsers == Cardinality(Emails)
UserSlots == 1..MaxUsers
TypeSet == {PackageTypes[i] : i \in 1..Len(PackageTypes)}
\* Purchases tried for one customer, as <<package_type, quantity>>.
Purchases == {<<"A", 3>>, <<"B", 2>>, <<"B", 0>>, <<"A", 0 - 1>>}
\* Purchases tried where two customers share the tables.
Submissions == {<<"A", 1>>, <<"B", 0>>}
\* The order of a webhook submission.
WebhookOrders == {<<"A", 1>>}
\* package_count arguments: <<>> is None, <<n>> is the integer n.
Counts == {<<>>} \cup {<<n>> : n \in 0..MaxCount}
Actions == {"checkout_all", "checkin_all", "checkout_one", "checkin_one", "bogus"}
Statuses == {"available", "rented_out", "lost"}

VARIABLES
    users,          \* table users: rows [email, rental_status]
    user_packages,  \* table user_packages: rows [user_id, package_type, status]
    qr_codes,       \* table qr_codes: rows [user_id, qr_code_number, is_active]
    last,           \* the last operation invoked and what it returned
    mon,            \* per customer: progress of the two scenario observers
    inflight,       \* per request thread: its position in the handler and its locals
    sent_since,     \* per customer: thank-you sends since a unit was last rented out
    resolved        \* the (code, customer) pairs a code lookup has ever answered

vars == <<users, user_packages, qr_codes, last, mon, inflight, sent_since, resolved>>

\* The request threads of the server that run side by side.
Threads == {1, 2}

\* ----------------------------------------------------------------- helpers

UserIds == 1..Len(users)
PackageIds == 1..Len(user_packages)

\* ids of the user's rows, optionally of one status
RowsOf(pk, u) == {i \in 1..Len(pk) : pk[i].user_id = u}
RowsWith(pk, u, s) == {i \in RowsOf(pk, u) : pk[i].status = s}

\* SELECT id ... WHERE user_id = u AND status = s ORDER BY package_type, id:
\* for each package type in collation order, the matching ids in ascending order
RECURSIVE OrderByTypeId(_, _, _, _)
OrderByTypeId(pk, u, s, k) ==
    IF k > Len(PackageTypes) THEN <<>>
    ELSE SelectSeq([i \in 1..Len(pk) |-> i],
                   LAMBDA i : /\ pk[i].user_id = u
                              /\ pk[i].status = s
                              /\ pk[i].package_type = PackageTypes[k])
         \o OrderByTypeId(pk, u, s, k + 1)

RECURSIVE SumCounts(_)
SumCounts(rows) ==
    IF rows = {} THEN 0
    ELSE LET r == CHOOSE x \in rows : TRUE
         IN  r.count + SumCounts(rows \ {r})

Min(a, b) == IF a < b THEN a ELSE b

\* UPDATE user_packages SET status = s WHERE id IN ids
SetStatus(pk, ids, s) ==
    [i \in 1..Len(pk) |-> IF i \in ids THEN [pk[i] EXCEPT !.status = s] ELSE pk[i]]

\* UPDATE users SET rental_status = rs WHERE id = u
SetRental(us, u, rs) ==
    [i \in 1..Len(us) |-> IF i = u THEN [us[i] EXCEPT !.rental_status = rs] ELSE us[i]]

\* What an operation reports: its name, the customer it acted for, its
\* arguments (cnt, str), its result (ok, msg, changed, all_returned), the
\* thank-you sends it attempted and whether the send succeeded, how many
\* of the customer's units were rented out when it was invoked, and the
\* email_sent entry of the response (<<>> when the response has none).
Result(op, u, ok, msg) ==
    [op |-> op, user |-> u, ok |-> ok, msg |-> msg,
     cnt |-> <<>>, str |-> "", changed |-> 0, all_returned |-> FALSE,
     thank_you |-> 0, email_sent |-> FALSE, rented_before |-> 0,
     email_flag |-> <<>>]

\* The messages of the model that tell the caller the thank-you email was sent.
CheckedInAllMsg == "Successfully checked in - Thank you email sent."
SentSuffix == " Thank you email sent to customer."
UnitReturnedMsg == "Package checked in successfully - thank you email sent!"

\* --------------------------------------------------- Inventory Ledger

\* SELECT status, COUNT(*), package_type ... GROUP BY status, package_type
package_counts(pk, u) ==
    LET mine == RowsOf(pk, u)
    IN  {r \in {[status |-> s, package_type |-> t,
                 count |-> Cardinality({i \in mine : pk[i].status = s
                                           /\ pk[i].package_type = t})] :
                    s \in {pk[i].status : i \in mine}, t \in TypeSet} :
            r.count > 0}

\* the per-type breakdown the summary carries: package_types[type][status]
package_types(pk, u) ==
    LET rows == package_counts(pk, u)
    IN  [t \in {r.package_type : r \in rows} |->
            [s \in {"available", "rented_out"} |->
                SumCounts({r \in rows : r.package_type = t /\ r.status = s})]]

\* get_user_package_summary with each group's count assigned to the running
\* counter instead of added to it: the last group processed wins
summary_counts_overwritten(pk, u) ==
    LET rows == package_counts(pk, u)
        total_from_query == Cardinality(RowsOf(pk, u))
        lastCount(s) ==
            LET mine == {r \in rows : r.status = s}
            IN  IF mine = {} THEN 0
                ELSE (CHOOSE r \in mine : \A q \in mine :
                        \E i, j \in 1..Len(PackageTypes) :
                            /\ PackageTypes[i] = q.package_type
                            /\ PackageTypes[j] = r.package_type
                            /\ i <= j).count
    IN  [total_packages |-> total_from_query,
         available_packages |-> lastCount("available"),
         rented_packages |-> lastCount("rented_out"),
         has_packages |-> total_from_query > 0,
         all_returned |-> IF total_from_query > 0
                          THEN lastCount("rented_out") = 0 ELSE TRUE]

\* get_user_package_summary with the final determination of all_returned
\* tied to has_packages (false for a customer without units)
summary_all_returned_needs_units(pk, u) ==
    LET rows == package_counts(pk, u)
        total_from_query == Cardinality(RowsOf(pk, u))
        rented == SumCounts({r \in rows : r.status = "rented_out"})
    IN  [total_packages |-> total_from_query,
         available_packages |-> SumCounts({r \in rows : r.status = "available"}),
         rented_packages |-> rented,
         has_packages |-> total_from_query > 0,
         all_returned |-> total_from_query > 0 /\ rented = 0]

\* DatabaseHandler.get_user_package_summary, on the table pk
get_user_package_summary_on(pk, u) ==
    LET rows == package_counts(pk, u)
        total_from_query == Cardinality(RowsOf(pk, u))
        rented == SumCounts({r \in rows : r.status = "rented_out"})
    IN  [total_packages |-> total_from_query,
         available_packages |-> SumCounts({r \in rows : r.status = "available"}),
         rented_packages |-> rented,
         has_packages |-> total_from_query > 0,
         all_returned |-> IF total_from_query > 0 THEN rented = 0 ELSE TRUE]

get_user_package_summary(u) == get_user_package_summary_on(user_packages, u)

\* for _ in range(quantity): INSERT INTO user_packages ... 'available'
RECURSIVE InsertPackages(_, _, _, _)
InsertPackages(pk, u, package_type, quantity) ==
    IF quantity <= 0 THEN pk
    ELSE InsertPackages(
            Append(pk, [user_id |-> u, package_type |-> package_type,
                        status |-> "available"]),
            u, package_type, quantity - 1)

\* add_user_packages writing the purchase over the customer's inventory:
\* the existing units are put back to available before the new ones are added
add_user_packages_resetting(u, package_type, quantity) ==
    InsertPackages(SetStatus(user_packages, RowsOf(user_packages, u), "available"),
                   u, package_type, quantity)

\* DatabaseHandler.add_user_packages: the table after the call
add_user_packages(u, package_type, quantity) ==
    InsertPackages(user_packages, u, package_type, quantity)

\* ------------------------------------------------ Transition Controller

\* checkout_user_packages without the test of the count it is about to use:
\* a count of 0 selects no unit, marks the customer active and succeeds
checkout_user_packages_accepting_zero(u, package_count) ==
    LET available_packages ==
            OrderByTypeId(user_packages, u, "available", 1)
        n == IF package_count = <<>> THEN Len(available_packages)
             ELSE Min(package_count[1], Len(available_packages))
        package_ids == {available_packages[i] : i \in 1..n}
    IN  IF available_packages = <<>>
        THEN [pk |-> user_packages, us |-> users,
              res |-> Result("checkout_user_packages", u, FALSE,
                             "No available packages to check out")]
        ELSE [pk |-> SetStatus(user_packages, package_ids, "rented_out"),
              us |-> SetRental(users, u, 1),
              res |-> [Result("checkout_user_packages", u, TRUE,
                              "Successfully checked out")
                        EXCEPT !.changed = n]]

\* checkout_user_packages selecting the available units in id order alone
checkout_user_packages_by_id(u, package_count) ==
    LET available_packages ==
            SelectSeq([i \in 1..Len(user_packages) |-> i],
                      LAMBDA i : /\ user_packages[i].user_id = u
                                 /\ user_packages[i].status = "available")
        n == IF package_count = <<>> THEN Len(available_packages)
             ELSE Min(package_count[1], Len(available_packages))
        package_ids == {available_packages[i] : i \in 1..n}
        fail(msg) == [pk |-> user_packages, us |-> users,
                      res |-> Result("checkout_user_packages", u, FALSE, msg)]
    IN  IF available_packages = <<>> THEN fail("No available packages to check out")
        ELSE IF n <= 0 THEN fail("Invalid package count")
        ELSE [pk |-> SetStatus(user_packages, package_ids, "rented_out"),
              us |-> SetRental(users, u, 1),
              res |-> [Result("checkout_user_packages", u, TRUE,
                              "Successfully checked out")
                        EXCEPT !.changed = n]]

\* DatabaseHandler.checkout_user_packages: the tables after the call and
\* the tuple (success, message, packages_checked_out) it returns.
checkout_user_packages(u, package_count) ==
    LET available_packages ==
            OrderByTypeId(user_packages, u, "available", 1)
        n == IF package_count = <<>> THEN Len(available_packages)
             ELSE Min(package_count[1], Len(available_packages))
        package_ids == {available_packages[i] : i \in 1..n}
        fail(msg) == [pk |-> user_packages, us |-> users,
                      res |-> Result("checkout_user_packages", u, FALSE, msg)]
    IN  IF available_packages = <<>> THEN fail("No available packages to check out")
        ELSE IF n <= 0 THEN fail("Invalid package count")
        ELSE [pk |-> SetStatus(user_packages, package_ids, "rented_out"),
              us |-> SetRental(users, u, 1),
              res |-> [Result("checkout_user_packages", u, TRUE,
                              "Successfully checked out")
                        EXCEPT !.changed = n]]

\* checkin_user_packages without the early return for a customer with no
\* rented unit: all units are available, so it marks the customer returned
\* and sends the thank-you again
checkin_user_packages_level_triggered(u, package_count, smtp) ==
    LET total_packages == Cardinality(RowsOf(user_packages, u))
        rented_packages == OrderByTypeId(user_packages, u, "rented_out", 1)
        n == IF package_count = <<>> THEN Len(rented_packages)
             ELSE Min(package_count[1], Len(rented_packages))
        package_ids == {rented_packages[i] : i \in 1..n}
        pk2 == SetStatus(user_packages, package_ids, "available")
        all_returned == Cardinality(RowsWith(pk2, u, "rented_out")) = 0
    IN  IF total_packages = 0
        THEN [pk |-> user_packages, us |-> users,
              res |-> [Result("checkin_user_packages", u, FALSE,
                              "User has no packages in inventory")
                        EXCEPT !.all_returned = TRUE]]
        ELSE [pk |-> pk2,
              us |-> SetRental(users, u, IF all_returned THEN 2 ELSE 1),
              res |-> [Result("checkin_user_packages", u, TRUE,
                              "Successfully checked in")
                        EXCEPT !.changed = IF n > 0 THEN n ELSE 0,
                               !.all_returned = all_returned,
                               !.thank_you = IF all_returned THEN 1 ELSE 0,
                               !.email_sent = all_returned /\ smtp]]

\* checkin_user_packages treating a failed thank-you send as a failure of
\* the whole call: the tables are put back as they were
checkin_user_packages_undone_by_send_failure(u, package_count, smtp) ==
    LET total_packages == Cardinality(RowsOf(user_packages, u))
        rented_packages == OrderByTypeId(user_packages, u, "rented_out", 1)
        n == IF package_count = <<>> THEN Len(rented_packages)
             ELSE Min(package_count[1], Len(rented_packages))
        package_ids == {rented_packages[i] : i \in 1..n}
        pk2 == SetStatus(user_packages, package_ids, "available")
        all_returned == Cardinality(RowsWith(pk2, u, "rented_out")) = 0
        fail(msg, flag) ==
            [pk |-> user_packages, us |-> users,
             res |-> [Result("checkin_user_packages", u, FALSE, msg)
                        EXCEPT !.all_returned = flag]]
    IN  IF total_packages = 0 THEN fail("User has no packages in inventory", TRUE)
        ELSE IF rented_packages = <<>> THEN fail("No rented packages to check in", TRUE)
        ELSE IF n <= 0 THEN fail("Invalid package count", FALSE)
        ELSE IF all_returned /\ ~smtp
        THEN [fail("Thank you email failed", FALSE) EXCEPT !.res.thank_you = 1]
        ELSE [pk |-> pk2,
              us |-> SetRental(users, u, IF all_returned THEN 2 ELSE 1),
              res |-> [Result("checkin_user_packages", u, TRUE,
                              "Successfully checked in")
                        EXCEPT !.changed = n,
                               !.all_returned = all_returned,
                               !.thank_you = IF all_returned THEN 1 ELSE 0,
                               !.email_sent = all_returned /\ smtp]]

\* checkin_user_packages counting the units still rented out before its
\* UPDATE instead of after it
checkin_user_packages_stale_count(u, package_count, smtp) ==
    LET total_packages == Cardinality(RowsOf(user_packages, u))
        rented_packages == OrderByTypeId(user_packages, u, "rented_out", 1)
        n == IF package_count = <<>> THEN Len(rented_packages)
             ELSE Min(package_count[1], Len(rented_packages))
        package_ids == {rented_packages[i] : i \in 1..n}
        all_returned == Cardinality(RowsWith(user_packages, u, "rented_out")) = 0
        fail(msg, flag) ==
            [pk |-> user_packages, us |-> users,
             res |-> [Result("checkin_user_packages", u, FALSE, msg)
                        EXCEPT !.all_returned = flag]]
    IN  IF total_packages = 0 THEN fail("User has no packages in inventory", TRUE)
        ELSE IF rented_packages = <<>> THEN fail("No rented packages to check in", TRUE)
        ELSE IF n <= 0 THEN fail("Invalid package count", FALSE)
        ELSE [pk |-> SetStatus(user_packages, package_ids, "available"),
              us |-> SetRental(users, u, IF all_returned THEN 2 ELSE 1),
              res |-> [Result("checkin_user_packages", u, TRUE,
                              "Successfully checked in")
                        EXCEPT !.changed = n,
                               !.all_returned = all_returned,
                               !.thank_you = IF all_returned THEN 1 ELSE 0,
                               !.email_sent = all_returned /\ smtp]]

\* checkin_user_packages selecting the rented-out units in id order alone
checkin_user_packages_by_id(u, package_count, smtp) ==
    LET total_packages == Cardinality(RowsOf(user_packages, u))
        rented_packages ==
            SelectSeq([i \in 1..Len(user_packages) |-> i],
                      LAMBDA i : /\ user_packages[i].user_id = u
                                 /\ user_packages[i].status = "rented_out")
        n == IF package_count = <<>> THEN Len(rented_packages)
             ELSE Min(package_count[1], Len(rented_packages))
        package_ids == {rented_packages[i] : i \in 1..n}
        pk2 == SetStatus(user_packages, package_ids, "available")
        actual_rented_remaining == Cardinality(RowsWith(pk2, u, "rented_out"))
        all_returned == actual_rented_remaining = 0
        notify == all_returned /\ total_packages > 0
        fail(msg, flag) ==
            [pk |-> user_packages, us |-> users,
             res |-> [Result("checkin_user_packages", u, FALSE, msg)
                        EXCEPT !.all_returned = flag]]
    IN  IF total_packages = 0 THEN fail("User has no packages in inventory", TRUE)
        ELSE IF rented_packages = <<>> THEN fail("No rented packages to check in", TRUE)
        ELSE IF n <= 0 THEN fail("Invalid package count", FALSE)
        ELSE [pk |-> pk2,
              us |-> SetRental(users, u, IF all_returned THEN 2 ELSE 1),
              res |-> [Result("checkin_user_packages", u, TRUE,
                              IF all_returned
                              THEN CheckedInAllMsg
                              ELSE "Successfully checked in - packages still checked out")
                        EXCEPT !.changed = n,
                               !.all_returned = all_returned,
                               !.thank_you = IF notify THEN 1 ELSE 0,
                               !.email_sent = notify /\ smtp]]

\* DatabaseHandler.checkin_user_packages: the tables after the call and the
\* tuple (success, message, packages_checked_in, all_returned) it returns.
\* smtp is whether RentalEmailHandler.send_thank_you_email succeeds.
checkin_user_packages(u, package_count, smtp) ==
    LET total_packages == Cardinality(RowsOf(user_packages, u))
        rented_packages ==
            OrderByTypeId(user_packages, u, "rented_out", 1)
        n == IF package_count = <<>> THEN Len(rented_packages)
             ELSE Min(package_count[1], Len(rented_packages))
        package_ids == {rented_packages[i] : i \in 1..n}
        pk2 == SetStatus(user_packages, package_ids, "available")
        actual_rented_remaining == Cardinality(RowsWith(pk2, u, "rented_out"))
        all_returned == actual_rented_remaining = 0
        notify == all_returned /\ total_packages > 0
        fail(msg, flag) ==
            [pk |-> user_packages, us |-> users,
             res |-> [Result("checkin_user_packages", u, FALSE, msg)
                        EXCEPT !.all_returned = flag]]
    IN  IF total_packages = 0 THEN fail("User has no packages in inventory", TRUE)
        ELSE IF rented_packages = <<>> THEN fail("No rented packages to check in", TRUE)
        ELSE IF n <= 0 THEN fail("Invalid package count", FALSE)
        ELSE [pk |-> pk2,
              us |-> SetRental(users, u, IF all_returned THEN 2 ELSE 1),
              res |-> [Result("checkin_user_packages", u, TRUE,
                              IF all_returned
                              THEN CheckedInAllMsg
                              ELSE "Successfully checked in - packages still checked out")
                        EXCEPT !.changed = n,
                               !.all_returned = all_returned,
                               !.thank_you = IF notify THEN 1 ELSE 0,
                               !.email_sent = notify /\ smtp]]

\* The statements of checkout_user_packages and checkin_user_packages at
\* which the storage can raise mysql.connector.Error.
CheckoutSteps == {"update_packages", "update_users", "commit"}
CheckinSteps == {"update_packages", "commit_packages", "count_remaining",
                 "update_users", "commit_users"}

\* checkout_user_packages when the statement at step raises: the UPDATE of
\* user_packages and the UPDATE of users belong to one transaction, which
\* the except branch rolls back before raising
checkout_user_packages_failing(u, package_count, step) ==
    LET o == checkout_user_packages(u, package_count)
    IN  IF ~o.res.ok THEN o
        ELSE [pk |-> user_packages, us |-> users,
              res |-> [Result("checkout_user_packages", u, FALSE, "Database error")
                        EXCEPT !.str = step]]

\* checkin_user_packages when the statement at step raises: the UPDATE of
\* user_packages is committed on its own before the remaining units are
\* counted and users is updated, so the rollback of the except branch undoes
\* only what follows that commit
checkin_user_packages_failing(u, package_count, step) ==
    LET o == checkin_user_packages(u, package_count, TRUE)
        committed == step \notin {"update_packages", "commit_packages"}
    IN  IF ~o.res.ok THEN o
        ELSE [pk |-> IF committed THEN o.pk ELSE user_packages,
              us |-> users,
              res |-> [Result("checkin_user_packages", u, FALSE, "Database error")
                        EXCEPT !.str = step]]

\* update_rental_status_new without the early return for a customer whose
\* summary has no packages
update_rental_status_new_unguarded(u, action, smtp) ==
    LET summary == get_user_package_summary(u)
        fail(msg) == [pk |-> user_packages, us |-> users,
                      res |-> Result("update_rental_status_new", u, FALSE, msg)]
    IN  IF action = "checkout_all" THEN
            IF summary.available_packages = 0
            THEN fail("No packages available to check out")
            ELSE checkout_user_packages(u, <<>>)
        ELSE IF action = "checkin_all" THEN
            IF summary.rented_packages = 0
            THEN fail("No packages currently rented")
            ELSE checkin_user_packages(u, <<>>, smtp)
        ELSE IF action = "checkout_one" THEN
            IF summary.available_packages = 0
            THEN fail("No packages available to check out")
            ELSE checkout_user_packages(u, <<1>>)
        ELSE IF action = "checkin_one" THEN
            IF summary.rented_packages = 0
            THEN fail("No packages currently rented")
            ELSE checkin_user_packages(u, <<1>>, smtp)
        ELSE fail("Invalid action")

\* DatabaseHandler.update_rental_status_new
update_rental_status_new(u, action, smtp) ==
    LET summary == get_user_package_summary(u)
        fail(msg) == [pk |-> user_packages, us |-> users,
                      res |-> Result("update_rental_status_new", u, FALSE, msg)]
    IN  IF ~summary.has_packages THEN fail("User has no packages in inventory")
        ELSE IF action = "checkout_all" THEN
            IF summary.available_packages = 0
            THEN fail("No packages available to check out")
            ELSE checkout_user_packages(u, <<>>)
        ELSE IF action = "checkin_all" THEN
            IF summary.rented_packages = 0
            THEN fail("No packages currently rented")
            ELSE checkin_user_packages(u, <<>>, smtp)
        ELSE IF action = "checkout_one" THEN
            IF summary.available_packages = 0
            THEN fail("No packages available to check out")
            ELSE checkout_user_packages(u, <<1>>)
        ELSE IF action = "checkin_one" THEN
            IF summary.rented_packages = 0
            THEN fail("No packages currently rented")
            ELSE checkin_user_packages(u, <<1>>, smtp)
        ELSE fail("Invalid action")

\* DatabaseHandler.update_package_status: UPDATE ... WHERE id = package_id;
\* a status other than the two known ones raises before any statement runs
update_package_status(package_id, new_status) ==
    IF new_status \notin {"available", "rented_out"} THEN user_packages
    ELSE SetStatus(user_packages, {package_id} \cap PackageIds, new_status)

\* the reset done as a return of everything: units made available and the
\* customer marked returned (2), as a check-in of all units leaves them
ResetAll_as_return(u) ==
    [pk |-> SetStatus(user_packages, RowsOf(user_packages, u), "available"),
     us |-> SetRental(users, u, 2)]

\* the reset with the unit UPDATE lacking its WHERE user_id: every
\* customer's units are made available
ResetAll_every_customer(u) ==
    [pk |-> SetStatus(user_packages, PackageIds, "available"),
     us |-> SetRental(users, u, 0)]

\* the reset done by clearing the customer's inventory: the units are deleted
ResetAll_dropping_units(u) ==
    [pk |-> SelectSeq(user_packages, LAMBDA row : row.user_id # u),
     us |-> SetRental(users, u, 0)]

\* The reset branch (status == 0) of DatabaseHandler.update_rental_status and
\* steps 1-3 of the reset_rental_status route: the same two UPDATEs.
ResetAll(u) ==
    [pk |-> SetStatus(user_packages, RowsOf(user_packages, u), "available"),
     us |-> SetRental(users, u, 0)]

\* ------------------------------------------------------- Code Generator

\* f"{n:04d}" for 1 <= n <= 9999: the four decimal digits, zero padded
Format04d(n) ==
    <<(n \div 1000) % 10, (n \div 100) % 10, (n \div 10) % 10, n % 10>>

\* a uniqueness test that accepts every candidate
is_code_unique_unchecked(code_number) == TRUE

\* SELECT COUNT(*) FROM qr_codes WHERE qr_code_number = code_number; count == 0
is_code_unique(code_number) ==
    Cardinality({i \in 1..Len(qr_codes) :
                    qr_codes[i].qr_code_number = code_number}) = 0

\* generate_qr_code settling for its last candidate when every attempt has
\* collided, instead of raising
RECURSIVE generate_qr_code_settling(_)
generate_qr_code_settling(draws) ==
    IF draws = <<>> THEN <<>>
    ELSE LET candidate_number == Format04d(Head(draws))
         IN  IF is_code_unique(candidate_number) \/ Len(draws) = 1
             THEN <<candidate_number>>
             ELSE generate_qr_code_settling(Tail(draws))

\* QREmailSender.generate_qr_code: draws are the values random.randint
\* returns in turn; <<code>> is the code chosen, <<>> the ValueError.
RECURSIVE generate_qr_code(_)
generate_qr_code(draws) ==
    IF draws = <<>> THEN <<>>
    ELSE LET candidate_number == Format04d(Head(draws))
         IN  IF is_code_unique(candidate_number)
             THEN <<candidate_number>>
             ELSE generate_qr_code(Tail(draws))

\* SELECT id FROM qr_codes WHERE user_id = u ORDER BY created_at DESC LIMIT 1
\* (rows are written in created_at order: the newest row has the largest id)
LatestQr(u) ==
    LET mine == {i \in 1..Len(qr_codes) : qr_codes[i].user_id = u}
    IN  IF mine = {} THEN 0
        ELSE CHOOSE i \in mine : \A j \in mine : j <= i

\* a store that always INSERTs a new active row and leaves the customer's
\* earlier rows as they are
store_qr_in_database_insert_only(u, qr_code_number) ==
    Append(qr_codes, [user_id |-> u, qr_code_number |-> qr_code_number,
                      is_active |-> TRUE])

\* QREmailSender._store_qr_in_database: the table after the call
store_qr_in_database(u, qr_code_number) ==
    LET existing_qr == LatestQr(u)
    IN  IF existing_qr # 0
        THEN [qr_codes EXCEPT ![existing_qr] =
                [@ EXCEPT !.qr_code_number = qr_code_number, !.is_active = TRUE]]
        ELSE Append(qr_codes, [user_id |-> u, qr_code_number |-> qr_code_number,
                               is_active |-> TRUE])

\* DatabaseHandler.store_qr_code: the table after the call
store_qr_code(u, qr_code_number) ==
    Append([i \in 1..Len(qr_codes) |->
                IF qr_codes[i].user_id = u
                THEN [qr_codes[i] EXCEPT !.is_active = FALSE]
                ELSE qr_codes[i]],
           [user_id |-> u, qr_code_number |-> qr_code_number, is_active |-> TRUE])

\* a lookup that matches the code number alone, active or not
verify_qr_code_any_binding(q, qr_code_number) ==
    {q[i].user_id : i \in {j \in 1..Len(q) :
        q[j].qr_code_number = qr_code_number}}

\* SELECT ... FROM users u JOIN qr_codes qr ON u.id = qr.user_id
\* WHERE qr.qr_code_number = %s AND qr.is_active = TRUE, on the table q
verify_qr_code_on(q, qr_code_number) ==
    {q[i].user_id : i \in {j \in 1..Len(q) :
        q[j].qr_code_number = qr_code_number /\ q[j].is_active}}

\* DatabaseHandler.verify_qr_code: the ids of the users the code resolves to
verify_qr_code(qr_code_number) == verify_qr_code_on(qr_codes, qr_code_number)

\* ------------------------------------------------------------- customers

UserByEmail(email) == {i \in UserIds : users[i].email = email}

\* create_user without the lookup by email: every call inserts a row
create_user_always_inserting(email) ==
    [us |-> Append(users, [email |-> email, rental_status |-> 0]),
     id |-> Len(users) + 1]

\* DatabaseHandler.create_user: the table after the call and the id returned
create_user(email) ==
    IF UserByEmail(email) # {}
    THEN [us |-> users, id |-> CHOOSE i \in UserByEmail(email) : TRUE]
    ELSE [us |-> Append(users, [email |-> email, rental_status |-> 0]),
          id |-> Len(users) + 1]

\* ------------------------------------------------------------- observers

\* the entry points that take the operation as an action name
ByActionName == {"update_rental_status_new", "package_action"}

IsCheckout(r, c) ==
    \/ r.op = "checkout_user_packages" /\ r.cnt = c
    \/ r.op \in ByActionName /\ c = <<>> /\ r.str = "checkout_all"
    \/ r.op \in ByActionName /\ c = <<1>> /\ r.str = "checkout_one"
    \/ r.op = "update_rental_status" /\ c = <<>> /\ r.cnt = <<1>>

IsCheckin(r, c) ==
    \/ r.op = "checkin_user_packages" /\ r.cnt = c
    \/ r.op \in ByActionName /\ c = <<>> /\ r.str = "checkin_all"
    \/ r.op \in ByActionName /\ c = <<1>> /\ r.str = "checkin_one"
    \/ r.op = "update_rental_status" /\ c = <<>> /\ r.cnt = <<2>>

IsAdd(r, t, q) ==
    r.op \in {"add_user_packages", "jotform_webhook"} /\ r.str = t /\ r.cnt = <<q>>

IsReset(r) ==
    \/ r.op = "reset_rental_status"
    \/ r.op = "update_rental_status" /\ r.cnt = <<0>>

IsUnitEdit(r, s) == r.op = "update_package_status_api" /\ r.str = s

\* The observer of one customer after an inventory operation r invoked for
\* that customer in a state where the customer's summary was pre.
\*   scn: add 3 of A to a customer without units, check out one, add 2 of B
\*   rt:  check out all of a fully available inventory, then check in all;
\*        sent counts the thank-you sends of the two operations
Advance(m, r, pre) ==
    [scn |-> IF m.scn = "fresh" /\ pre.total_packages = 0 /\ IsAdd(r, "A", 3)
             THEN "a3"
             ELSE IF m.scn = "a3" /\ IsCheckout(r, <<1>>) THEN "a3c1"
             ELSE IF m.scn = "a3c1" /\ IsAdd(r, "B", 2) THEN "a3c1b2"
             ELSE "off",
     rt |-> IF IsCheckout(r, <<>>) /\ pre.total_packages > 0
               /\ pre.available_packages = pre.total_packages
            THEN "out"
            ELSE IF m.rt = "out" /\ IsCheckin(r, <<>>) THEN "back"
            ELSE "idle",
     sent |-> IF IsCheckout(r, <<>>) /\ pre.total_packages > 0
                 /\ pre.available_packages = pre.total_packages
              THEN r.thank_you
              ELSE IF m.rt = "out" /\ IsCheckin(r, <<>>)
              THEN m.sent + r.thank_you
              ELSE 0]

Reported(r) ==
    [r EXCEPT !.rented_before =
        Cardinality(RowsWith(user_packages, r.user, "rented_out"))]

Observe(r) ==
    mon' = IF r.user \in UserSlots
           THEN [mon EXCEPT ![r.user] =
                    Advance(@, r, get_user_package_summary(r.user))]
           ELSE mon

\* --------------------------------------------------------------- actions

\* a thread that serves no request
Idle ==
    [pc |-> "idle", user |-> 0, cnt |-> <<>>, ids |-> {}, total |-> 0,
     all_returned |-> FALSE, email |-> "", code |-> <<>>, attempts |-> 0]

Init ==
    /\ users = <<>>
    /\ user_packages = <<>>
    /\ qr_codes = <<>>
    /\ last = Result("init", 0, TRUE, "")
    /\ mon = [v \in UserSlots |-> [scn |-> "fresh", rt |-> "idle", sent |-> 0]]
    /\ inflight = [t \in Threads |-> Idle]
    /\ sent_since = [v \in UserSlots |-> 0]
    /\ resolved = {}

\* A request handled from start to end with no other request in between.
Sequential == UNCHANGED <<inflight, sent_since, resolved>>

\* db.create_user(first_name, last_name, email, ...)
Call_create_user(email) ==
    LET c == create_user(email)
    IN  /\ users' = c.us
        /\ last' = [Result("create_user", c.id, TRUE, "") EXCEPT !.str = email]
        /\ UNCHANGED <<user_packages, qr_codes, mon>>

\* db.add_user_packages(user_id, package_type, quantity)
Call_add_user_packages(u, package_type, quantity) ==
    /\ user_packages' = add_user_packages(u, package_type, quantity)
    /\ last' = Reported([Result("add_user_packages", u, TRUE, "")
                            EXCEPT !.str = package_type, !.cnt = <<quantity>>])
    /\ Observe(last')
    /\ UNCHANGED <<users, qr_codes>>

\* db.checkout_user_packages(user_id, package_count)
Call_checkout_user_packages(u, package_count) ==
    \E o \in {checkout_user_packages(u, package_count)} :
        /\ user_packages' = o.pk
        /\ users' = o.us
        /\ last' = Reported([o.res EXCEPT !.cnt = package_count])
        /\ Observe(last')
        /\ UNCHANGED qr_codes

\* db.checkin_user_packages(user_id, package_count); a failed send is an
\* outcome only where a send is attempted
Call_checkin_user_packages(u, package_count, smtp) ==
    \E o \in {checkin_user_packages(u, package_count, smtp)} :
        /\ smtp \/ o.res.thank_you > 0
        /\ user_packages' = o.pk
        /\ users' = o.us
        /\ last' = Reported([o.res EXCEPT !.cnt = package_count])
        /\ Observe(last')
        /\ UNCHANGED qr_codes

\* db.update_rental_status_new(user_id, action), as the toggle-rental and
\* package-action routes call it
Call_update_rental_status_new(u, action, smtp) ==
    \E o \in {update_rental_status_new(u, action, smtp)} :
        /\ smtp \/ o.res.thank_you > 0
        /\ user_packages' = o.pk
        /\ users' = o.us
        /\ last' = Reported([o.res EXCEPT !.op = "update_rental_status_new",
                                           !.str = action])
        /\ Observe(last')
        /\ UNCHANGED qr_codes

\* db.checkout_user_packages(user_id, package_count) with a storage error
Fail_checkout_user_packages(u, package_count, step) ==
    \E o \in {checkout_user_packages_failing(u, package_count, step)} :
        /\ o.res.msg = "Database error"
        /\ user_packages' = o.pk
        /\ users' = o.us
        /\ last' = Reported([o.res EXCEPT !.cnt = package_count])
        /\ Observe(last')
        /\ UNCHANGED qr_codes

\* db.checkin_user_packages(user_id, package_count) with a storage error
Fail_checkin_user_packages(u, package_count, step) ==
    \E o \in {checkin_user_packages_failing(u, package_count, step)} :
        /\ o.res.msg = "Database error"
        /\ user_packages' = o.pk
        /\ users' = o.us
        /\ last' = Reported([o.res EXCEPT !.cnt = package_count])
        /\ Observe(last')
        /\ UNCHANGED qr_codes

\* DatabaseHandler.update_rental_status, the deprecated entry point
update_rental_status(u, status, smtp) ==
    IF status = 1 THEN update_rental_status_new(u, "checkout_all", smtp)
    ELSE IF status = 2 THEN update_rental_status_new(u, "checkin_all", smtp)
    ELSE IF status = 0
    THEN [pk |-> ResetAll(u).pk, us |-> ResetAll(u).us,
          res |-> Result("update_rental_status", u, TRUE, "")]
    ELSE [pk |-> user_packages, us |-> users,
          res |-> Result("update_rental_status", u, FALSE, "")]

\* db.update_rental_status(user_id, status)
Call_update_rental_status(u, status, smtp) ==
    \E o \in {update_rental_status(u, status, smtp)} :
        /\ smtp \/ o.res.thank_you > 0
        /\ user_packages' = o.pk
        /\ users' = o.us
        /\ last' = Reported([o.res EXCEPT !.op = "update_rental_status",
                                           !.cnt = <<status>>])
        /\ Observe(last')
        /\ UNCHANGED qr_codes

\* the single-unit edit as a bare row update: the unit is written and the
\* customer is neither marked returned nor thanked
update_package_status_route_row_only(package_id, new_status, smtp) ==
    LET r == [Result("update_package_status_api", 0, TRUE, "")
                EXCEPT !.str = new_status, !.cnt = <<package_id>>]
    IN  IF new_status \notin {"available", "rented_out"}
        THEN [pk |-> user_packages, us |-> users,
              res |-> [r EXCEPT !.ok = FALSE, !.msg = "Invalid status provided"]]
        ELSE IF package_id \notin PackageIds
        THEN [pk |-> user_packages, us |-> users,
              res |-> [r EXCEPT !.ok = FALSE, !.msg = "Package not found"]]
        ELSE [pk |-> update_package_status(package_id, new_status),
              us |-> users,
              res |-> [r EXCEPT !.user = user_packages[package_id].user_id]]

\* POST /api/update-package-status/<package_id> {status: new_status}: the
\* tables after the request and what the route did
update_package_status_route(package_id, new_status, smtp) ==
    LET r == [Result("update_package_status_api", 0, TRUE, "")
                EXCEPT !.str = new_status, !.cnt = <<package_id>>]
        fail(msg) == [pk |-> user_packages, us |-> users,
                      res |-> [r EXCEPT !.ok = FALSE, !.msg = msg]]
    IN  IF new_status \notin {"available", "rented_out"}
        THEN fail("Invalid status provided")
        ELSE IF package_id \notin PackageIds
        THEN fail("Package not found")
        ELSE LET user_id == user_packages[package_id].user_id
                 pk2 == update_package_status(package_id, new_status)
                 summary == get_user_package_summary_on(pk2, user_id)
                 notify == /\ new_status = "available"
                           /\ summary.has_packages /\ summary.all_returned
                           /\ summary.total_packages > 0
             IN  [pk |-> pk2,
                  us |-> IF notify THEN SetRental(users, user_id, 2) ELSE users,
                  res |-> [r EXCEPT !.user = user_id,
                                    !.thank_you = IF notify THEN 1 ELSE 0,
                                    !.email_sent = notify /\ smtp,
                                    !.all_returned = notify,
                                    !.msg = IF notify /\ smtp
                                            THEN UnitReturnedMsg ELSE "",
                                    !.email_flag = IF notify /\ smtp
                                                   THEN <<TRUE>> ELSE <<>>]]

update_package_status_api(package_id, new_status, smtp) ==
    \E o \in {update_package_status_route(package_id, new_status, smtp)} :
        /\ smtp \/ o.res.thank_you > 0
        /\ user_packages' = o.pk
        /\ users' = o.us
        /\ last' = Reported(o.res)
        /\ Observe(last')
        /\ UNCHANGED qr_codes

\* POST /api/package-action/<user_id> {action}: the tables after the
\* request and the response; email_sent is put in the response from the
\* summary read after the operation
package_action_route(u, action, smtp) ==
    IF action \notin {"checkout_one", "checkin_one", "checkout_all", "checkin_all"}
    THEN [pk |-> user_packages, us |-> users,
          res |-> Result("package_action", u, FALSE, "Invalid action")]
    ELSE LET o == update_rental_status_new(u, action, smtp)
             final_summary == get_user_package_summary_on(o.pk, u)
             flagged == final_summary.all_returned /\ final_summary.has_packages
         IN  IF o.res.ok
             THEN [o EXCEPT !.res.op = "package_action",
                            !.res.msg = IF flagged THEN @ \o SentSuffix ELSE @,
                            !.res.email_flag = IF flagged THEN <<TRUE>> ELSE <<>>]
             ELSE [o EXCEPT !.res.op = "package_action"]

package_action(u, action, smtp) ==
    \E o \in {package_action_route(u, action, smtp)} :
        /\ smtp \/ o.res.thank_you > 0
        /\ user_packages' = o.pk
        /\ users' = o.us
        /\ last' = Reported([o.res EXCEPT !.str = action])
        /\ Observe(last')
        /\ UNCHANGED qr_codes

\* POST /api/reset-rental/<user_id>: the tables after the request and what
\* the route answered
reset_rental_route(u) ==
    LET current_summary == get_user_package_summary(u)
    IN  IF ~current_summary.has_packages
        THEN [pk |-> user_packages, us |-> users,
              res |-> Result("reset_rental_status", u, FALSE,
                             "User has no packages to reset")]
        ELSE [pk |-> ResetAll(u).pk, us |-> ResetAll(u).us,
              res |-> Result("reset_rental_status", u, TRUE, "Reset complete")]

reset_rental_status(u) ==
    \E o \in {reset_rental_route(u)} :
        /\ user_packages' = o.pk
        /\ users' = o.us
        /\ last' = Reported(o.res)
        /\ Observe(last')
        /\ UNCHANGED qr_codes

\* QREmailSender.send_email(recipient_email, ...): create_user, then
\* generate_qr_code, then _store_qr_in_database, then the SMTP send.
\* msg tells whether the code row was created or updated.
send_email(email, draws, smtp) ==
    \E c \in {create_user(email)}, g \in {generate_qr_code(draws)} :
        /\ users' = c.us
        /\ IF g = <<>>
           THEN /\ qr_codes' = qr_codes
                /\ last' = [Result("send_email", c.id, FALSE,
                                   "Failed to generate unique QR code")
                                EXCEPT !.str = email]
           ELSE /\ qr_codes' = store_qr_in_database(c.id, g[1])
                /\ last' = [Result("send_email", c.id, smtp,
                                   IF LatestQr(c.id) # 0 THEN "updated" ELSE "created")
                                EXCEPT !.str = email, !.cnt = g[1]]
        /\ UNCHANGED <<user_packages, mon>>

Draws == [1..MaxAttempts -> 1..CodeMax]

\* POST /webhook (jotform_webhook) for a well-formed submission: find or
\* create the customer by email, add the purchased units, then issue and
\* mail a code; a failure of the mail step is logged and the response is 200.
jotform_webhook(email, package_type, quantity, draws) ==
    \E c \in {create_user(email)}, g \in {generate_qr_code(draws)} :
        /\ users' = c.us
        /\ user_packages' = add_user_packages(c.id, package_type, quantity)
        /\ qr_codes' = IF g = <<>> THEN qr_codes
                       ELSE store_qr_in_database(c.id, g[1])
        /\ last' = Reported([Result("jotform_webhook", c.id, TRUE,
                                    IF g = <<>>
                                    THEN "Failed to generate unique QR code"
                                    ELSE IF LatestQr(c.id) # 0 THEN "updated"
                                    ELSE "created")
                                EXCEPT !.str = package_type,
                                       !.cnt = <<quantity>>])
        /\ Observe(last')

\* The operations on the inventory tables, for the customers created from
\* the emails E, the purchases P and at most cap rows of user_packages.
Inventory(E, P, cap) ==
    \/ \E e \in E : Call_create_user(e) /\ Sequential
    \/ \E u \in UserIds, p \in P :
          /\ Len(user_packages) + p[2] <= cap
          /\ Call_add_user_packages(u, p[1], p[2])
          /\ Sequential
    \/ \E u \in UserIds, c \in Counts : Call_checkout_user_packages(u, c) /\ Sequential
    \/ \E u \in UserIds, c \in Counts, smtp \in BOOLEAN :
          Call_checkin_user_packages(u, c, smtp) /\ Sequential
    \/ \E p \in 1..(Len(user_packages) + 1), s \in Statuses, smtp \in BOOLEAN :
          update_package_status_api(p, s, smtp) /\ Sequential
    \/ \E u \in UserIds : reset_rental_status(u) /\ Sequential

\* The entry points that delegate to the operations above by an action name
\* or a legacy status number.
Delegating ==
    \/ \E u \in UserIds, a \in Actions, smtp \in BOOLEAN :
          Call_update_rental_status_new(u, a, smtp) /\ Sequential
    \/ \E u \in UserIds, s \in 0..3, smtp \in BOOLEAN :
          Call_update_rental_status(u, s, smtp) /\ Sequential
    \/ \E u \in UserIds, a \in Actions, smtp \in BOOLEAN :
          package_action(u, a, smtp) /\ Sequential

\* One customer, the whole inventory life cycle through every entry point.
Next == Inventory(OneEmail, Purchases, MaxPackages) \/ Delegating

Spec == Init /\ [][Next]_vars

\* One customer, with storage errors during check-out and check-in.
NextFault ==
    \/ Inventory(OneEmail, Purchases, MaxPackages)
    \/ \E u \in UserIds, c \in Counts, k \in CheckoutSteps :
          Fail_checkout_user_packages(u, c, k) /\ Sequential
    \/ \E u \in UserIds, c \in Counts, k \in CheckinSteps :
          Fail_checkin_user_packages(u, c, k) /\ Sequential

SpecFault == Init /\ [][NextFault]_vars

\* Two customers sharing the tables.
NextMulti == Inventory(Emails, Submissions, MaxPackagesMulti)

SpecMulti == Init /\ [][NextMulti]_vars

\* Code issuing for two customers.
NextQr ==
    \/ \E e \in Emails : Call_create_user(e) /\ Sequential
    \/ \E e \in Emails, d \in Draws, smtp \in BOOLEAN : send_email(e, d, smtp) /\ Sequential
    \/ \E e \in Emails, p \in WebhookOrders, d \in Draws :
          /\ Len(user_packages) + p[2] <= MaxPackagesMulti
          /\ jotform_webhook(e, p[1], p[2], d)
          /\ Sequential

SpecQr == Init /\ [][NextQr]_vars

\* ------------------------------------------------- requests side by side
\*
\* The server handles requests on threads that all use the one module-level
\* DatabaseHandler db: one connection, one cursor, no lock.  A statement of
\* one request therefore runs between any two statements of another, and on
\* the shared connection sees what the other has written, committed or not.
\* Each action below is one statement (execute and fetch together) of
\* checkout_user_packages or checkin_user_packages on thread t.

Goto(t, rec) == inflight' = [inflight EXCEPT ![t] = rec]

\* the method returns res to its caller
Return(t, res) ==
    /\ inflight' = [inflight EXCEPT ![t] = Idle]
    /\ last' = [res EXCEPT !.cnt = inflight[t].cnt]

AllIdle == \A t \in Threads : inflight[t].pc = "idle"

\* a request for checkout_user_packages(u, package_count) arrives
Begin_checkout(t, u, package_count) ==
    /\ inflight[t].pc = "idle"
    /\ Goto(t, [Idle EXCEPT !.pc = "co_select", !.user = u, !.cnt = package_count])
    /\ UNCHANGED <<users, user_packages, qr_codes, last, mon, sent_since, resolved>>

\* SELECT the available units, the early returns, and the choice of ids
co_select(t) ==
    LET r == inflight[t]
        available_packages == OrderByTypeId(user_packages, r.user, "available", 1)
        n == IF r.cnt = <<>> THEN Len(available_packages)
             ELSE Min(r.cnt[1], Len(available_packages))
    IN  /\ r.pc = "co_select"
        /\ IF available_packages = <<>>
           THEN Return(t, Result("checkout_user_packages", r.user, FALSE,
                                 "No available packages to check out"))
           ELSE IF n <= 0
           THEN Return(t, Result("checkout_user_packages", r.user, FALSE,
                                 "Invalid package count"))
           ELSE /\ Goto(t, [r EXCEPT !.pc = "co_update",
                                     !.ids = {available_packages[i] : i \in 1..n}])
                /\ UNCHANGED last
        /\ UNCHANGED <<users, user_packages, qr_codes, mon, sent_since, resolved>>

\* UPDATE user_packages SET status = 'rented_out' WHERE id IN (ids)
co_update(t) ==
    LET r == inflight[t]
    IN  /\ r.pc = "co_update"
        /\ user_packages' = SetStatus(user_packages, r.ids, "rented_out")
        /\ sent_since' = [sent_since EXCEPT ![r.user] = 0]
        /\ Goto(t, [r EXCEPT !.pc = "co_status"])
        /\ UNCHANGED <<users, qr_codes, last, mon, resolved>>

\* UPDATE users SET rental_status = 1, the rentals row, commit, return
co_status(t) ==
    LET r == inflight[t]
    IN  /\ r.pc = "co_status"
        /\ users' = SetRental(users, r.user, 1)
        /\ Return(t, [Result("checkout_user_packages", r.user, TRUE,
                              "Successfully checked out")
                        EXCEPT !.changed = Cardinality(r.ids)])
        /\ UNCHANGED <<user_packages, qr_codes, mon, sent_since, resolved>>

\* a request for checkin_user_packages(u, package_count) arrives
Begin_checkin(t, u, package_count) ==
    /\ inflight[t].pc = "idle"
    /\ Goto(t, [Idle EXCEPT !.pc = "ci_count", !.user = u, !.cnt = package_count])
    /\ UNCHANGED <<users, user_packages, qr_codes, last, mon, sent_since, resolved>>

\* SELECT COUNT(*) of the customer's units; none is an early return
ci_count(t) ==
    LET r == inflight[t]
        total_packages == Cardinality(RowsOf(user_packages, r.user))
    IN  /\ r.pc = "ci_count"
        /\ IF total_packages = 0
           THEN Return(t, [Result("checkin_user_packages", r.user, FALSE,
                                  "User has no packages in inventory")
                            EXCEPT !.all_returned = TRUE])
           ELSE /\ Goto(t, [r EXCEPT !.pc = "ci_select", !.total = total_packages])
                /\ UNCHANGED last
        /\ UNCHANGED <<users, user_packages, qr_codes, mon, sent_since, resolved>>

\* SELECT the rented-out units, the early returns, and the choice of ids
ci_select(t) ==
    LET r == inflight[t]
        rented_packages == OrderByTypeId(user_packages, r.user, "rented_out", 1)
        n == IF r.cnt = <<>> THEN Len(rented_packages)
             ELSE Min(r.cnt[1], Len(rented_packages))
    IN  /\ r.pc = "ci_select"
        /\ IF rented_packages = <<>>
           THEN Return(t, [Result("checkin_user_packages", r.user, FALSE,
                                  "No rented packages to check in")
                            EXCEPT !.all_returned = TRUE])
           ELSE IF n <= 0
           THEN Return(t, Result("checkin_user_packages", r.user, FALSE,
                                 "Invalid package count"))
           ELSE /\ Goto(t, [r EXCEPT !.pc = "ci_update",
                                     !.ids = {rented_packages[i] : i \in 1..n}])
                /\ UNCHANGED last
        /\ UNCHANGED <<users, user_packages, qr_codes, mon, sent_since, resolved>>

\* UPDATE user_packages SET status = 'available' WHERE id IN (ids); commit
ci_update(t) ==
    LET r == inflight[t]
    IN  /\ r.pc = "ci_update"
        /\ user_packages' = SetStatus(user_packages, r.ids, "available")
        /\ Goto(t, [r EXCEPT !.pc = "ci_recount"])
        /\ UNCHANGED <<users, qr_codes, last, mon, sent_since, resolved>>

\* SELECT COUNT(*) of the units still rented out
ci_recount(t) ==
    LET r == inflight[t]
        actual_rented_remaining ==
            Cardinality(RowsWith(user_packages, r.user, "rented_out"))
    IN  /\ r.pc = "ci_recount"
        /\ Goto(t, [r EXCEPT !.pc = "ci_status",
                             !.all_returned = (actual_rented_remaining = 0)])
        /\ UNCHANGED <<users, user_packages, qr_codes, last, mon, sent_since, resolved>>

\* UPDATE users SET rental_status = 2 or 1; commit
ci_status(t) ==
    LET r == inflight[t]
    IN  /\ r.pc = "ci_status"
        /\ users' = SetRental(users, r.user, IF r.all_returned THEN 2 ELSE 1)
        /\ Goto(t, [r EXCEPT !.pc = "ci_notify"])
        /\ UNCHANGED <<user_packages, qr_codes, last, mon, sent_since, resolved>>

\* the thank-you step and the return; smtp is whether the send succeeds
ci_notify(t, smtp) ==
    LET r == inflight[t]
        notify == r.all_returned /\ r.total > 0
    IN  /\ r.pc = "ci_notify"
        /\ smtp \/ notify
        /\ sent_since' = [sent_since EXCEPT ![r.user] = @ + (IF notify THEN 1 ELSE 0)]
        /\ Return(t, [Result("checkin_user_packages", r.user, TRUE,
                              IF r.all_returned
                              THEN CheckedInAllMsg
                              ELSE "Successfully checked in - packages still checked out")
                        EXCEPT !.changed = Cardinality(r.ids),
                               !.all_returned = r.all_returned,
                               !.thank_you = IF notify THEN 1 ELSE 0,
                               !.email_sent = notify /\ smtp])
        /\ UNCHANGED <<users, user_packages, qr_codes, mon, resolved>>

\* One customer whose check-outs and check-ins arrive on two threads; the
\* customer and the units are entered while no request is being served.
NextRace ==
    \/ \E e \in OneEmail : AllIdle /\ Call_create_user(e) /\ Sequential
    \/ \E u \in UserIds, p \in Submissions :
          /\ AllIdle
          /\ Len(user_packages) + p[2] <= MaxPackagesMulti
          /\ Call_add_user_packages(u, p[1], p[2])
          /\ Sequential
    \/ \E t \in Threads, u \in UserIds, c \in Counts : Begin_checkout(t, u, c)
    \/ \E t \in Threads : co_select(t)
    \/ \E t \in Threads : co_update(t)
    \/ \E t \in Threads : co_status(t)
    \/ \E t \in Threads, u \in UserIds, c \in Counts : Begin_checkin(t, u, c)
    \/ \E t \in Threads : ci_count(t)
    \/ \E t \in Threads : ci_select(t)
    \/ \E t \in Threads : ci_update(t)
    \/ \E t \in Threads : ci_recount(t)
    \/ \E t \in Threads : ci_status(t)
    \/ \E t \in Threads, smtp \in BOOLEAN : ci_notify(t, smtp)

SpecRace == Init /\ [][NextRace]_vars

\* The webhook builds a QREmailSender of its own for every submission, and
\* each sender opens its own DatabaseHandler: two submissions issue codes
\* on two connections, and each sees what the other has committed.  Each
\* action below is one committed step of send_email on thread t.

\* a submission for email arrives and its sender is built
Begin_send_email(t, email) ==
    /\ inflight[t].pc = "idle"
    /\ \A o \in Threads : inflight[o].pc # "idle" => inflight[o].email # email
    /\ Goto(t, [Idle EXCEPT !.pc = "is_user", !.email = email])
    /\ UNCHANGED <<users, user_packages, qr_codes, last, mon, sent_since, resolved>>

\* self.db.create_user(...): find or create the customer, commit
is_user(t) ==
    LET r == inflight[t]
        c == create_user(r.email)
    IN  /\ r.pc = "is_user"
        /\ users' = c.us
        /\ Goto(t, [r EXCEPT !.pc = "is_draw", !.user = c.id])
        /\ UNCHANGED <<user_packages, qr_codes, last, mon, sent_since, resolved>>

\* one turn of the loop of generate_qr_code: draw n, ask is_code_unique
is_draw(t, n) ==
    LET r == inflight[t]
        candidate_number == Format04d(n)
    IN  /\ r.pc = "is_draw"
        /\ IF is_code_unique(candidate_number)
           THEN /\ Goto(t, [r EXCEPT !.pc = "is_store", !.code = <<candidate_number>>])
                /\ UNCHANGED last
           ELSE IF r.attempts + 1 < MaxAttempts
           THEN /\ Goto(t, [r EXCEPT !.attempts = @ + 1])
                /\ UNCHANGED last
           ELSE /\ inflight' = [inflight EXCEPT ![t] = Idle]
                /\ last' = [Result("send_email", r.user, FALSE,
                                    "Failed to generate unique QR code")
                                EXCEPT !.str = r.email]
        /\ UNCHANGED <<users, user_packages, qr_codes, mon, sent_since, resolved>>

\* self._store_qr_in_database(...), commit, then the mail and the return
is_store(t, smtp) ==
    LET r == inflight[t]
    IN  /\ r.pc = "is_store"
        /\ qr_codes' = store_qr_in_database(r.user, r.code[1])
        /\ inflight' = [inflight EXCEPT ![t] = Idle]
        /\ last' = [Result("send_email", r.user, smtp,
                            IF LatestQr(r.user) # 0 THEN "updated" ELSE "created")
                        EXCEPT !.str = r.email, !.cnt = r.code[1]]
        /\ UNCHANGED <<users, user_packages, mon, sent_since, resolved>>

\* Codes issued for two customers by submissions on two threads.
NextIssue ==
    \/ \E t \in Threads, e \in Emails : Begin_send_email(t, e)
    \/ \E t \in Threads : is_user(t)
    \/ \E t \in Threads, n \in 1..CodeMax : is_draw(t, n)
    \/ \E t \in Threads, smtp \in BOOLEAN : is_store(t, smtp)

SpecIssue == Init /\ [][NextIssue]_vars

\* the runs of random.randint that give the same number at every attempt
SameDraws == {d \in Draws : \A k \in 1..MaxAttempts : d[k] = d[1]}

\* Two customers sharing the tables: the inventory operations and the
\* issuing of codes, which also enters the customer.
NextFrame ==
    \/ \E u \in UserIds, p \in WebhookOrders :
          /\ Len(user_packages) + p[2] <= MaxPackagesMulti
          /\ Call_add_user_packages(u, p[1], p[2])
          /\ Sequential
    \/ \E u \in UserIds : Call_checkout_user_packages(u, <<>>) /\ Sequential
    \/ \E u \in UserIds :
          Call_checkin_user_packages(u, <<1>>, TRUE) /\ Sequential
    \/ \E p \in PackageIds, s \in {"available", "rented_out"} :
          update_package_status_api(p, s, TRUE) /\ Sequential
    \/ \E u \in UserIds : reset_rental_status(u) /\ Sequential
    \/ \E e \in Emails, d \in SameDraws : send_email(e, d, TRUE) /\ Sequential

SpecFrame == Init /\ [][NextFrame]_vars

\* Every (code, customer) pair that verify_qr_code answers after the step
\* is added to the pairs it has ever answered.
Remember ==
    /\ resolved' = resolved \cup
            {<<qr_codes'[i].qr_code_number, qr_codes'[i].user_id>> :
                i \in {j \in 1..Len(qr_codes') : qr_codes'[j].is_active}}
    /\ UNCHANGED <<inflight, sent_since>>

\* Code issuing for two customers, one request at a time, with the record
\* of what every code has resolved to.
NextHist ==
    \/ \E e \in Emails : Call_create_user(e) /\ Remember
    \/ \E e \in Emails, d \in Draws, smtp \in BOOLEAN :
          send_email(e, d, smtp) /\ Remember

SpecHist == Init /\ [][NextHist]_vars

\* ---------------------------------------------------------------- claims

Summary(u) == get_user_package_summary(u)

\* an operation that checks units in: either check-in entry point with any
\* count, or a single-unit edit to 'available'
IsCheckinKind(r) ==
    \/ r.op = "checkin_user_packages"
    \/ r.op \in ByActionName /\ r.str \in {"checkin_all", "checkin_one"}
    \/ r.op = "update_rental_status" /\ r.cnt = <<2>>
    \/ IsUnitEdit(r, "available")

ControllerOps ==
    {"checkout_user_packages", "checkin_user_packages", "update_rental_status_new",
     "update_rental_status", "update_package_status_api", "reset_rental_status",
     "package_action"}

\* C1: every operation attempts the thank-you send exactly once if it is a
\* check-in (bulk, single, or a unit edit to 'available') that takes the
\* customer's rented-out count from above zero to zero, and not at all
\* otherwise; in particular not when the customer was already fully returned.
C1_ThankYouOncePerReturn ==
    [][last'.user \in 1..Len(users') =>
        last'.thank_you =
            IF /\ IsCheckinKind(last')
               /\ Cardinality(RowsWith(user_packages, last'.user, "rented_out")) > 0
               /\ Cardinality(RowsWith(user_packages', last'.user, "rented_out")) = 0
            THEN 1 ELSE 0]_vars

\* C2: after a Transition Controller operation the customer's rental_status
\* is active (1) exactly when one of the customer's units is rented out.
C2_StatusMatchesUnits ==
    (last.op \in ControllerOps /\ last.user \in UserIds) =>
        (users[last.user].rental_status = 1
            <=> Summary(last.user).rented_packages > 0)

\* C3: for every customer the summary's available and rented counts add up
\* to its total.
C3_CountsAddUp ==
    \A u \in UserIds :
        Summary(u).available_packages + Summary(u).rented_packages
            = Summary(u).total_packages

C3_Witness ==
    \E u \in UserIds :
        /\ Summary(u).available_packages > 0
        /\ Summary(u).rented_packages > 0
        /\ Cardinality(DOMAIN package_types(user_packages, u)) = 2
        /\ last.op = "update_package_status_api" /\ last.ok

\* C4: for every customer all_returned says that no unit is rented out and
\* has_packages that there is a unit; a customer without units has the
\* zeroed summary {0, 0, 0, false, true}.
C4_SummaryFlags ==
    \A u \in UserIds :
        /\ Summary(u).all_returned = (Summary(u).rented_packages = 0)
        /\ Summary(u).has_packages = (Summary(u).total_packages > 0)
        /\ RowsOf(user_packages, u) = {} =>
              Summary(u) = [total_packages |-> 0, available_packages |-> 0,
                            rented_packages |-> 0, has_packages |-> FALSE,
                            all_returned |-> TRUE]

C4_Witness ==
    \E u, v \in UserIds :
        /\ RowsOf(user_packages, u) = {}
        /\ Summary(u).all_returned
        /\ Summary(v).rented_packages > 0
        /\ ~Summary(v).all_returned

\* C5: add_user_packages leaves every existing row of user_packages and the
\* users table as they were and appends exactly the purchased units, all
\* available; so adding 3 of A to a customer without units, checking out
\* one, then adding 2 of B gives total 5, available 4, rented 1.
C5_AddIsAdditive ==
    /\ [](\A u \in UserIds :
            mon[u].scn = "a3c1b2" =>
                /\ Summary(u).total_packages = 5
                /\ Summary(u).available_packages = 4
                /\ Summary(u).rented_packages = 1)
    /\ [][last'.op = "add_user_packages" =>
            LET q == IF last'.cnt[1] > 0 THEN last'.cnt[1] ELSE 0
            IN  /\ users' = users
                /\ Len(user_packages') = Len(user_packages) + q
                /\ \A i \in 1..Len(user_packages) :
                      user_packages'[i] = user_packages[i]
                /\ \A i \in (Len(user_packages) + 1)..Len(user_packages') :
                      user_packages'[i] =
                          [user_id |-> last'.user, package_type |-> last'.str,
                           status |-> "available"]]_vars

C5_Witness ==
    \E u \in UserIds :
        /\ mon[u].scn = "a3c1b2"
        /\ last.op = "add_user_packages" /\ last.str = "B" /\ last.cnt = <<2>>
        /\ last.rented_before = 1
        /\ Summary(u).rented_packages = 1

\* C6: a check-in of all units for a customer who has units but none rented
\* out fails with the no-rented-units message, leaves user_packages and
\* users unchanged and attempts no thank-you send.
C6_CheckinAllWhenReturned ==
    [][(/\ IsCheckin(last', <<>>)
        /\ last'.user \in UserIds
        /\ Summary(last'.user).total_packages > 0
        /\ Summary(last'.user).rented_packages = 0) =>
            /\ ~last'.ok
            /\ last'.msg \in {"No rented packages to check in",
                              "No packages currently rented"}
            /\ user_packages' = user_packages
            /\ users' = users
            /\ last'.thank_you = 0]_vars

C6_Witness ==
    /\ IsCheckin(last, <<>>)
    /\ ~last.ok
    /\ last.msg = "No rented packages to check in"
    /\ last.user \in UserIds
    /\ last.rented_before = 0
    /\ Summary(last.user).total_packages > 0
    /\ users[last.user].rental_status = 2

\* C7: checking out all units of a customer whose units are all available
\* and then checking all in leaves every unit available, none rented,
\* all_returned true and rental_status returned (2), with exactly one
\* thank-you send over the two operations.
C7_RoundTrip ==
    \A u \in UserIds :
        mon[u].rt = "back" =>
            /\ Summary(u).total_packages > 0
            /\ Summary(u).available_packages = Summary(u).total_packages
            /\ Summary(u).rented_packages = 0
            /\ Summary(u).all_returned
            /\ users[u].rental_status = 2
            /\ mon[u].sent = 1

C7_Witness ==
    \E u \in UserIds :
        /\ mon[u].rt = "back"
        /\ IsCheckin(last, <<>>) /\ last.user = u /\ last.ok
        /\ last.rented_before = Summary(u).total_packages
        /\ Summary(u).total_packages > 1

\* C8: a reset of a customer with units makes every unit of the customer
\* available whatever it was, sets rental_status to not_active (0) and
\* attempts no thank-you send.
C8_ResetIsSilent ==
    [][(/\ IsReset(last')
        /\ last'.user \in UserIds
        /\ Summary(last'.user).total_packages > 0) =>
            /\ last'.ok
            /\ \A i \in RowsOf(user_packages', last'.user) :
                  user_packages'[i].status = "available"
            /\ Len(user_packages') = Len(user_packages)
            /\ users'[last'.user].rental_status = 0
            /\ last'.thank_you = 0]_vars

C8_Witness ==
    /\ IsReset(last)
    /\ last.ok
    /\ last.user \in UserIds
    /\ last.rented_before = 2
    /\ Summary(last.user).rented_packages = 0
    /\ Summary(last.user).available_packages >= 2
    /\ users[last.user].rental_status = 0

\* the rows of qr_codes in table q that are active, of one customer or of all
ActiveOf(q, u) == {i \in 1..Len(q) : q[i].user_id = u /\ q[i].is_active}

ActiveCodes == {i \in 1..Len(qr_codes) : qr_codes[i].is_active}

\* C9: after any sequence of code issues (generate_qr_code, then the store),
\* re-issues for the same customer included, no two active rows of qr_codes
\* carry the same code.
C9_ActiveCodesUnique ==
    \A i, j \in ActiveCodes :
        qr_codes[i].qr_code_number = qr_codes[j].qr_code_number => i = j

C9_Witness ==
    /\ Cardinality(ActiveCodes) = 2
    /\ last.op = "send_email" /\ last.msg = "updated" /\ last.cnt # <<>>
    /\ \E i \in ActiveCodes :
          qr_codes[i].user_id # last.user /\ qr_codes[i].qr_code_number # last.cnt

\* C10: every customer has at most one active code; after a code is issued
\* and stored for a customer, by the mail path or by store_qr_code, exactly
\* one active code is left for that customer and it is the new one.
C10_OneActiveCode ==
    /\ \A u \in UserIds : Cardinality(ActiveOf(qr_codes, u)) <= 1
    /\ (last.op = "send_email" /\ last.cnt # <<>>) =>
          /\ Cardinality(ActiveOf(qr_codes, last.user)) = 1
          /\ \A i \in ActiveOf(qr_codes, last.user) :
                qr_codes[i].qr_code_number = last.cnt
    /\ \A u \in UserIds, n \in 1..CodeMax :
          LET q == store_qr_code(u, Format04d(n))
          IN  /\ ActiveOf(q, u) = {Len(q)}
              /\ q[Len(q)].qr_code_number = Format04d(n)

C10_Witness ==
    /\ last.op = "send_email" /\ last.msg = "updated" /\ last.cnt # <<>>
    /\ Cardinality(ActiveOf(qr_codes, last.user)) = 1
    /\ \E u \in UserIds : u # last.user /\ ActiveOf(qr_codes, u) # {}

\* an operation that issued and stored a code for a customer who had one
IsReissue(r) ==
    r.op \in {"send_email", "jotform_webhook"} /\ r.msg = "updated"

\* C11: verify_qr_code resolves active rows only: once a customer who holds
\* a code is issued a new one, the superseded value resolves to no customer
\* and the new value resolves to that customer, whether the new code is
\* stored by the mail path or by store_qr_code.
C11_ResolveOnlyActive ==
    /\ [][IsReissue(last') =>
            \E old \in {qr_codes[LatestQr(last'.user)].qr_code_number} :
                /\ verify_qr_code_on(qr_codes, old) = {last'.user}
                /\ verify_qr_code_on(qr_codes', old) = {}
                /\ last'.op = "send_email" =>
                      verify_qr_code_on(qr_codes', last'.cnt) = {last'.user}]_vars
    /\ [](\A u \in UserIds, n \in 1..CodeMax :
            (LatestQr(u) # 0 /\ is_code_unique(Format04d(n))) =>
                LET old == qr_codes[LatestQr(u)].qr_code_number
                    q == store_qr_code(u, Format04d(n))
                IN  /\ verify_qr_code_on(q, old) = {}
                    /\ verify_qr_code_on(q, Format04d(n)) = {u})

C11_Witness ==
    /\ IsReissue(last) /\ last.op = "send_email"
    /\ verify_qr_code(last.cnt) = {last.user}
    /\ \E n \in 1..CodeMax : verify_qr_code(Format04d(n)) = {}
    /\ \E n \in 1..CodeMax, u \in UserIds :
          u # last.user /\ verify_qr_code(Format04d(n)) = {u}

\* an operation that checks units out, through any check-out entry point
IsCheckoutKind(r) ==
    \/ r.op = "checkout_user_packages"
    \/ r.op \in ByActionName /\ r.str \in {"checkout_all", "checkout_one"}
    \/ r.op = "update_rental_status" /\ r.cnt = <<1>>

Rented(pk, u) == Cardinality(RowsWith(pk, u, "rented_out"))

\* C12: a customer is created with rental_status 0 (not_active), and the
\* rental_status of a customer changes only 0 -> 1 or 2 -> 1 by a check-out
\* that rents a unit, 1 -> 2 by a check-in that leaves no unit rented out,
\* and to 0 by a reset; it never goes from 0 straight to 2.
C12_StatusTransitions ==
    [][/\ \A u \in (Len(users) + 1)..Len(users') : users'[u].rental_status = 0
       /\ \A u \in UserIds :
            LET a == users[u].rental_status
                b == users'[u].rental_status
            IN  a # b =>
                  /\ last'.user = u
                  /\ \/ /\ a \in {0, 2} /\ b = 1
                        /\ IsCheckoutKind(last')
                        /\ Rented(user_packages', u) > Rented(user_packages, u)
                     \/ /\ a = 1 /\ b = 2
                        /\ IsCheckinKind(last')
                        /\ Rented(user_packages', u) = 0
                     \/ b = 0 /\ IsReset(last')]_vars

\* an operation whose thank-you send was attempted and failed
SendFailed(r) == r.thank_you = 1 /\ ~r.email_sent

\* C13: when the thank-you send fails after a check-in that returned the
\* customer's last rented unit, nothing is rolled back: every unit of the
\* customer is available, rental_status is 2 (returned) and the check-in
\* reports success.
C13_SendFailureKeepsInventory ==
    [][(/\ IsCheckinKind(last')
        /\ SendFailed(last')
        /\ last'.user \in UserIds
        /\ Rented(user_packages, last'.user) > 0) =>
            /\ last'.ok
            /\ \A i \in RowsOf(user_packages', last'.user) :
                  user_packages'[i].status = "available"
            /\ users'[last'.user].rental_status = 2]_vars

C13_Witness ==
    /\ last.op = "checkin_user_packages"
    /\ SendFailed(last)
    /\ last.ok
    /\ last.rented_before > 0
    /\ last.user \in UserIds
    /\ Rented(user_packages, last.user) = 0
    /\ users[last.user].rental_status = 2

\* the messages that tell the caller the thank-you email was sent
SentMessages == {CheckedInAllMsg, CheckedInAllMsg \o SentSuffix, UnitReturnedMsg}

\* C14: when a check-in returns all of a customer's units and the thank-you
\* send fails, the result reports success, its email_sent entry is not true
\* and its message does not say that the email was sent.
C14_SendFailureIsReported ==
    [][(/\ IsCheckinKind(last')
        /\ SendFailed(last')
        /\ last'.user \in UserIds
        /\ Rented(user_packages, last'.user) > 0
        /\ Rented(user_packages', last'.user) = 0) =>
            /\ last'.ok
            /\ last'.email_flag # <<TRUE>>
            /\ last'.msg \notin SentMessages]_vars

\* C15: a check-out or check-in that meets a storage error leaves the
\* customer's unit statuses and rental_status as they were before the call.
C15_StorageErrorIsAtomic ==
    [][(/\ last'.op \in {"checkout_user_packages", "checkin_user_packages"}
        /\ last'.msg = "Database error") =>
            /\ user_packages' = user_packages
            /\ users' = users]_vars

\* C16: add_user_packages with a quantity of 0 or less fails and adds no
\* row to user_packages.
C16_InvalidQuantityRejected ==
    [][(last'.op = "add_user_packages" /\ last'.cnt[1] <= 0) =>
            /\ ~last'.ok
            /\ user_packages' = user_packages]_vars

\* C17: a check-out with package_count 0 is rejected with the invalid-count
\* error whatever the customer's units are, and changes neither
\* user_packages nor users.
C17_ZeroCountRejected ==
    [][(last'.op = "checkout_user_packages" /\ last'.cnt = <<0>>) =>
            /\ ~last'.ok
            /\ last'.msg = "Invalid package count"
            /\ user_packages' = user_packages
            /\ users' = users]_vars

\* C17, as the code has it: a check-out with package_count 0 always fails
\* and changes neither user_packages nor users; the error is the
\* invalid-count one when the customer has an available unit and the
\* no-available-units one when the customer has none.
C17_ZeroCountRejectedByState ==
    [][(last'.op = "checkout_user_packages" /\ last'.cnt = <<0>>) =>
            /\ ~last'.ok
            /\ last'.msg =
                  IF RowsWith(user_packages, last'.user, "available") # {}
                  THEN "Invalid package count"
                  ELSE "No available packages to check out"
            /\ user_packages' = user_packages
            /\ users' = users]_vars

C17_Witness ==
    /\ last.op = "checkout_user_packages" /\ last.cnt = <<0>>
    /\ ~last.ok /\ last.msg = "Invalid package count"
    /\ last.user \in UserIds
    /\ RowsWith(user_packages, last.user, "available") # {}
    /\ last.rented_before > 0
    /\ users[last.user].rental_status = 1

GenerateFailed(r) ==
    /\ r.op \in {"send_email", "jotform_webhook"}
    /\ r.msg = "Failed to generate unique QR code"

\* C18: generate_qr_code looks at no more than its max_attempts draws: it
\* returns the first draw that no row of qr_codes carries, and fails when
\* every draw collides; when it fails, qr_codes is left as it was, so the
\* customer's code is unchanged.
C18_BoundedGeneration ==
    /\ [](\A d \in Draws :
            LET unused == {i \in 1..MaxAttempts : is_code_unique(Format04d(d[i]))}
                g == generate_qr_code(d)
            IN  IF unused = {} THEN g = <<>>
                ELSE /\ g = <<Format04d(d[CHOOSE i \in unused :
                                            \A j \in unused : i <= j])>>
                     /\ is_code_unique(g[1]))
    /\ [][GenerateFailed(last') => qr_codes' = qr_codes]_vars

C18_Witness ==
    /\ GenerateFailed(last) /\ last.op = "send_email"
    /\ LatestQr(last.user) # 0
    /\ verify_qr_code(qr_codes[LatestQr(last.user)].qr_code_number) = {last.user}

\* C19: when a customer who holds a code is issued a new one, the row of the
\* previous code stays in qr_codes with its code number, marked inactive.
C19_OldCodeRetained ==
    [][IsReissue(last') =>
            \E old \in {qr_codes[LatestQr(last'.user)]} :
                \E i \in 1..Len(qr_codes') :
                    /\ qr_codes'[i].user_id = old.user_id
                    /\ qr_codes'[i].qr_code_number = old.qr_code_number
                    /\ ~qr_codes'[i].is_active]_vars

\* C20: no two rows of users have the same email; create_user with an email
\* that a customer already has returns that customer's id and leaves users
\* (rental_status included) and user_packages as they were, and with a new
\* email it appends one row with rental_status 0.
C20_KeyedByEmail ==
    /\ [](\A i, j \in UserIds : users[i].email = users[j].email => i = j)
    /\ [][last'.op = "create_user" =>
            /\ user_packages' = user_packages
            /\ IF UserByEmail(last'.str) # {}
               THEN /\ last'.user \in UserByEmail(last'.str)
                    /\ users' = users
               ELSE /\ last'.user = Len(users) + 1
                    /\ users' = Append(users, [email |-> last'.str,
                                               rental_status |-> 0])]_vars

C20_Witness ==
    /\ last.op = "create_user"
    /\ Len(users) = 2
    /\ last.user \in UserIds
    /\ users[last.user].email = last.str
    /\ users[last.user].rental_status = 1
    /\ Rented(user_packages, last.user) > 0

\* C21: a single-unit edit to 'available' of the customer's only rented-out
\* unit leaves the tables as a check-in of one unit would: the unit is
\* available, rental_status is 2 (returned), and the thank-you send is
\* attempted exactly once.
C21_UnitEditAsCheckin ==
    [][(/\ IsUnitEdit(last', "available")
        /\ last'.ok
        /\ last'.user \in UserIds
        /\ Rented(user_packages, last'.user) = 1
        /\ user_packages[last'.cnt[1]].status = "rented_out") =>
            LET o == checkin_user_packages(last'.user, <<1>>, TRUE)
            IN  /\ o.res.ok /\ o.res.thank_you = 1
                /\ user_packages' = o.pk
                /\ users' = o.us
                /\ users'[last'.user].rental_status = 2
                /\ last'.thank_you = 1]_vars

C21_Witness ==
    /\ IsUnitEdit(last, "available")
    /\ last.ok
    /\ last.rented_before = 1
    /\ last.thank_you = 1
    /\ last.user \in UserIds
    /\ users[last.user].rental_status = 2
    /\ Summary(last.user).available_packages = 5

\* ORDER BY package_type, id: unit i sorts before unit j
TypeRank(t) == CHOOSE k \in 1..Len(PackageTypes) : PackageTypes[k] = t

Before(pk, i, j) ==
    \/ TypeRank(pk[i].package_type) < TypeRank(pk[j].package_type)
    \/ pk[i].package_type = pk[j].package_type /\ i < j

\* the units whose status an operation moved from one value to another
Flipped(pk, pk2, from, to) ==
    {i \in 1..Len(pk) : pk[i].status = from /\ pk2[i].status = to}

\* the errors that say the customer has no unit to check out
NoAvailableMsgs ==
    {"No available packages to check out", "No packages available to check out"}

\* C22: a check-out of n units (or of all) for a customer with k > 0
\* available units moves exactly min(n, k) (all k) units from available to
\* rented_out, the first ones in ascending (package_type, id) order, and
\* writes no other unit; with k = 0 it fails with the no-available-units
\* error (with the no-packages error where the customer has no unit at all
\* and the call goes through an action name) and changes nothing.
C22_CheckoutSelection ==
    [][\A c \in Counts :
        (IsCheckout(last', c) /\ last'.user \in UserIds) =>
            LET u == last'.user
                avail == RowsWith(user_packages, u, "available")
                k == Cardinality(avail)
                want == IF c = <<>> THEN k ELSE Min(c[1], k)
                F == Flipped(user_packages, user_packages', "available", "rented_out")
            IN  /\ Len(user_packages') = Len(user_packages)
                /\ \A i \in PackageIds :
                        user_packages'[i] =
                            IF i \in F
                            THEN [user_packages[i] EXCEPT !.status = "rented_out"]
                            ELSE user_packages[i]
                /\ F \subseteq avail
                /\ k > 0 => /\ Cardinality(F) = want
                            /\ \A i \in F : \A j \in avail \ F :
                                    Before(user_packages, i, j)
                /\ k = 0 => /\ ~last'.ok
                            /\ \/ last'.msg \in NoAvailableMsgs
                               \/ /\ RowsOf(user_packages, u) = {}
                                  /\ last'.op # "checkout_user_packages"
                                  /\ last'.msg = "User has no packages in inventory"
                            /\ users' = users]_vars

\* a check-out of one unit took the type-A unit 3 and left the older type-B
\* unit 1 available
C22_Witness ==
    /\ IsCheckout(last, <<1>>)
    /\ last.ok
    /\ last.changed = 1
    /\ Len(user_packages) = 5
    /\ user_packages[1].package_type = "B"
    /\ user_packages[1].status = "available"
    /\ user_packages[3].package_type = "A"
    /\ user_packages[3].status = "rented_out"
    /\ Rented(user_packages, last.user) = 1

\* C23: a check-in of n >= 1 units (or of all) for a customer with r > 0
\* rented-out units moves exactly min(n, r) (all r) units from rented_out to
\* available, the first ones in ascending (package_type, id) order, and
\* writes no other unit; afterwards rental_status is 2 (returned) if no unit
\* of the customer is rented out and 1 (active) otherwise, and the
\* all_returned flag checkin_user_packages returns says whether none is.
C23_CheckinSelection ==
    [][\A c \in Counts :
        (/\ IsCheckin(last', c)
         /\ last'.user \in UserIds
         /\ c # <<0>>
         /\ Rented(user_packages, last'.user) > 0) =>
            LET u == last'.user
                rented == RowsWith(user_packages, u, "rented_out")
                r == Cardinality(rented)
                want == IF c = <<>> THEN r ELSE Min(c[1], r)
                F == Flipped(user_packages, user_packages', "rented_out", "available")
                remaining == Rented(user_packages', u)
            IN  /\ last'.ok
                /\ Len(user_packages') = Len(user_packages)
                /\ \A i \in PackageIds :
                        user_packages'[i] =
                            IF i \in F
                            THEN [user_packages[i] EXCEPT !.status = "available"]
                            ELSE user_packages[i]
                /\ F \subseteq rented
                /\ Cardinality(F) = want
                /\ \A i \in F : \A j \in rented \ F : Before(user_packages, i, j)
                /\ users'[u].rental_status = IF remaining = 0 THEN 2 ELSE 1
                /\ \A v \in UserIds \ {u} : users'[v] = users[v]
                /\ last'.op = "checkin_user_packages" =>
                        last'.all_returned = (remaining = 0)]_vars

\* a check-in of one unit returned a type-A unit and left the older type-B
\* unit 1 rented out: the customer stays active
C23_Witness ==
    /\ IsCheckin(last, <<1>>)
    /\ last.op = "checkin_user_packages"
    /\ last.ok
    /\ last.changed = 1
    /\ ~last.all_returned
    /\ Len(user_packages) = 5
    /\ user_packages[1].package_type = "B"
    /\ user_packages[1].status = "rented_out"
    /\ user_packages[3].package_type = "A"
    /\ user_packages[3].status = "available"
    /\ last.rented_before = 2
    /\ users[last.user].rental_status = 1

\* the units there are: each row's id, owner and package type
UnitIdentity(pk) ==
    [i \in 1..Len(pk) |-> <<pk[i].user_id, pk[i].package_type>>]

\* C25: check-out, check-in, reset and the single-unit edit never create or
\* delete a unit: the set of units, their owners and their types (and with
\* them every customer's total_packages) change only in a step of
\* add_user_packages.
C25_UnitsOnlyAdded ==
    [][/\ UnitIdentity(user_packages') # UnitIdentity(user_packages) =>
            /\ last'.op = "add_user_packages"
            /\ last'.ok
       /\ last'.op \in ControllerOps =>
            \A u \in UserIds :
                get_user_package_summary_on(user_packages', u).total_packages
                    = Summary(u).total_packages]_vars

\* a reset of a customer with five units, two of them rented out, left five
C25_Witness ==
    /\ IsReset(last)
    /\ last.ok
    /\ last.rented_before = 2
    /\ Summary(last.user).total_packages = 5
    /\ Summary(last.user).available_packages = 5

\* C24: with a check-out and a check-in of one customer running side by
\* side, whenever no request is being served the customer's rental_status
\* agrees with the units: it is 2 (returned) only if no unit is rented out,
\* and it is 1 (active) if some unit is.
C24_StatusAgreesWithUnits ==
    AllIdle =>
        \A u \in UserIds :
            /\ users[u].rental_status = 2 => Rented(user_packages, u) = 0
            /\ Rented(user_packages, u) > 0 => users[u].rental_status = 1

\* C26: with two check-ins of all units of one customer running side by
\* side, the thank-you is sent at most once for one return: at most once
\* since a unit of the customer was last rented out.
C26_OneThankYouPerReturn ==
    \A u \in UserSlots : sent_since[u] <= 1

\* C27: with codes issued for two different customers side by side, no two
\* customers ever hold the same active code value.
C27_ActiveCodesDistinct ==
    \A i, j \in 1..Len(qr_codes) :
        (/\ qr_codes[i].is_active
         /\ qr_codes[j].is_active
         /\ qr_codes[i].qr_code_number = qr_codes[j].qr_code_number)
            => qr_codes[i].user_id = qr_codes[j].user_id

\* C28: a code value that has resolved to one customer never resolves to
\* another: every pair verify_qr_code has ever answered names the only
\* customer the code can resolve to now.
C28_CodeNeverRebound ==
    \A b \in resolved : verify_qr_code(b[1]) \subseteq {b[2]}

\* the code values that resolve to customer u in the table q
ActiveCodeOf(q, u) == {q[i].qr_code_number : i \in ActiveOf(q, u)}

\* C29: an operation invoked for one customer (adding units, check-out,
\* check-in, reset, a single-unit edit of one of the customer's units, the
\* issue of a code) leaves every other customer's units, rental_status and
\* active code as they were.
C29_OtherCustomersUntouched ==
    [][\A b \in UserIds \ {last'.user} :
        /\ users'[b] = users[b]
        /\ RowsOf(user_packages', b) = RowsOf(user_packages, b)
        /\ \A i \in RowsOf(user_packages, b) : user_packages'[i] = user_packages[i]
        /\ ActiveCodeOf(qr_codes', b) = ActiveCodeOf(qr_codes, b)]_vars

\* customer 1 was reset with a unit out while customer 2 has a unit out, is
\* active and holds a code
C29_Witness ==
    /\ IsReset(last)
    /\ last.user = 1
    /\ last.rented_before = 1
    /\ Len(users) = 2
    /\ Rented(user_packages, 2) = 1
    /\ users[2].rental_status = 1
    /\ ActiveCodeOf(qr_codes, 2) # {}
    /\ ActiveCodeOf(qr_codes, 1) # {}

\* the errors that say the customer owns no unit
NoPackagesMsgs ==
    {"User has no packages in inventory", "User has no packages to reset"}

====
